---- MODULE Spec2Model ----
(***************************************************************************)
(* clib-build: the build orchestrator of clib (clib-build.c).              *)
(*                                                                         *)
(* The model follows build_package_with_package_name, build_package and    *)
(* main statement by statement, both with HAVE_PTHREADS defined (worker    *)
(* threads, registry mutex) and with HAVE_PTHREADS undefined (recursive    *)
(* calls on one thread).  Every invocation of build_package is a frame;    *)
(* a frame is named by its position in the call tree.                      *)
(*                                                                         *)
(* Outside the model: allocation failures (path_join or asprintf           *)
(* returning 0), a manifest that exists but cannot be read (fs_read        *)
(* returning 0), arguments that start with '.', a failing                  *)
(* pthread_mutex_lock / pthread_create, and a concurrency option of 0      *)
(* (a zero-length array).                                                  *)
(***************************************************************************)
EXTENDS Integers, Sequences, FiniteSets, TLC

\* ------------------------------------------------------------------------
\* Bounds of the exploration
\* ------------------------------------------------------------------------

\* largest value given to --concurrency besides the default
MaxConcurrency == 2

\* largest number of sibling dependencies of the fan-out project
MaxFan == 3

\* largest number of arguments given to clib-install
MaxArgs == 2

\* ------------------------------------------------------------------------
\* Program constants
\* ------------------------------------------------------------------------

MAX_THREADS == 4

ENOENT == 2

ENOMEM == 12

\* wait status that system() returns for a command that exits with 1
EXIT1 == 256

package_names == <<"clib.json", "package.json">>

\* values stored in the registry `built`, as character strings
T == <<"t">>

F == <<"f">>

\* the version string of version.h: digits and dots, it never starts with t
CLIB_VERSION == <<"2", ".", "8">>

PROGRAM_KEY == <<"__clib-build__">>

CWD == <<"cwd">>

OPTS_DIR == <<"deps">>

\* no owner of the mutex
NoOwner == <<>>

\* ------------------------------------------------------------------------
\* Library functions
\* ------------------------------------------------------------------------

path_join(dir, file) == dir \o <<file>>

\* strncmp("t", val, 1) == 0
StartsWithT(val) == Len(val) >= 1 /\ val[1] = "t"

\* ------------------------------------------------------------------------
\* The file system: manifests found under the project and under ./deps
\* ------------------------------------------------------------------------

\* a manifest that parses: its makefile (if any), the wait status its make
\* command yields, its dependencies and development dependencies by name
Pkg(makefile, status, deps, dev) ==
  [json |-> "ok", makefile |-> makefile, status |-> status,
   dependencies |-> deps, development |-> dev]

\* a manifest file that clib_package_new rejects
BadJson ==
  [json |-> "bad", makefile |-> FALSE, status |-> 0,
   dependencies |-> <<>>, development |-> <<>>]

Leaf(makefile) == Pkg(makefile, 0, <<>>, <<>>)

Clib(dir) == path_join(dir, "clib.json")

Legacy(dir) == path_join(dir, "package.json")

Dep(name) == path_join(OPTS_DIR, name)

DepNames == <<"d1", "d2", "d3", "d4", "d5", "d6">>

\* root with a makefile and n dependencies that have none
Fan(n) ==
  [tag |-> "fan", n |-> n, argv |-> <<>>,
   files |-> [p \in {Clib(CWD)} \cup {Clib(Dep(DepNames[i])) : i \in 1..n} |->
                IF p = Clib(CWD)
                  THEN Pkg(TRUE, 0, [i \in 1..n |-> DepNames[i]], <<>>)
                  ELSE Leaf(FALSE)]]

\* root with three dependencies, the one at position pos has no manifest
SibFail(pos) ==
  [tag |-> "sibfail", n |-> pos, argv |-> <<>>,
   files |-> [p \in {Clib(CWD)} \cup
                    {Clib(Dep(DepNames[i])) : i \in (1..3) \ {pos}} |->
                IF p = Clib(CWD)
                  THEN Pkg(FALSE, 0, <<"d1", "d2", "d3">>, <<>>)
                  ELSE Leaf(TRUE)]]

\* root -> a, b ; a -> x ; b -> x  (b uses the legacy manifest name)
Diamond ==
  [tag |-> "diamond", n |-> 0, argv |-> <<>>,
   files |-> (Clib(CWD) :> Pkg(TRUE, 0, <<"a", "b">>, <<>>))
          @@ (Clib(Dep("a")) :> Pkg(TRUE, 0, <<"x">>, <<>>))
          @@ (Legacy(Dep("b")) :> Pkg(FALSE, 0, <<"x">>, <<>>))
          @@ (Clib(Dep("x")) :> Leaf(TRUE))]

\* root -> a ; the make command of a fails ; a -> x, a -dev-> y
BuildFail ==
  [tag |-> "buildfail", n |-> 0, argv |-> <<>>,
   files |-> (Clib(CWD) :> Pkg(TRUE, 0, <<"a">>, <<>>))
          @@ (Clib(Dep("a")) :> Pkg(TRUE, EXIT1, <<"x">>, <<"y">>))
          @@ (Clib(Dep("x")) :> Leaf(TRUE))
          @@ (Legacy(Dep("y")) :> Leaf(FALSE))]

\* a -> b -> a
Cycle ==
  [tag |-> "cycle", n |-> 0, argv |-> <<"a">>,
   files |-> (Clib(Dep("a")) :> Pkg(TRUE, 0, <<"b">>, <<>>))
          @@ (Clib(Dep("b")) :> Pkg(TRUE, 0, <<"a">>, <<>>))]

\* no manifest anywhere, no argument
NoManifest ==
  [tag |-> "nomanifest", n |-> 0, argv |-> <<>>, files |-> <<>>]

\* two arguments, "m" is found nowhere, "a" is installed
ArgsFailFirst ==
  [tag |-> "args", n |-> 1, argv |-> <<"m", "a">>,
   files |-> (Clib(Dep("a")) :> Leaf(TRUE))]

ArgsFailLast ==
  [tag |-> "args", n |-> 2, argv |-> <<"a", "m">>,
   files |-> (Clib(Dep("a")) :> Leaf(TRUE))]

\* "s" is not under ./deps but is a directory relative to the cwd
ArgsSlug ==
  [tag |-> "slug", n |-> 0, argv |-> <<"s", "a">>,
   files |-> (Clib(<<"s">>) :> Leaf(TRUE))
          @@ (Clib(Dep("a")) :> Pkg(TRUE, EXIT1, <<>>, <<>>))]

\* clib.json does not parse, package.json does
Broken ==
  [tag |-> "broken", n |-> 0, argv |-> <<"a">>,
   files |-> (Clib(Dep("a")) :> BadJson)
          @@ (Legacy(Dep("a")) :> Pkg(TRUE, 0, <<>>, <<"a">>))]

\* both manifests in one directory, the make command of clib.json fails
TwoManifests ==
  [tag |-> "two", n |-> 0, argv |-> <<"a">>,
   files |-> (Clib(Dep("a")) :> Pkg(TRUE, EXIT1, <<>>, <<>>))
          @@ (Legacy(Dep("a")) :> Leaf(TRUE))]

Worlds ==
  {Fan(n) : n \in 1..MaxFan} \cup {SibFail(pos) : pos \in 1..3} \cup
  {Diamond, BuildFail, Cycle, NoManifest, ArgsFailFirst, ArgsFailLast,
   ArgsSlug, Broken, TwoManifests}

Concurrencies == (1..MaxConcurrency) \cup {MAX_THREADS}

\* ------------------------------------------------------------------------
\* State
\* ------------------------------------------------------------------------

VARIABLES
  world,        \* the file system and the command line (fixed during a run)
  threads,      \* TRUE iff compiled with HAVE_PTHREADS
  opts,         \* options: dev, verbose, concurrency
  built,        \* the registry: manifest path -> "t" / "f"
  mutex,        \* owner of the registry mutex, or NoOwner
  frames,       \* live invocations of build_package, by call-tree position
  pcMain,       \* position of main
  argi,         \* main's loop index over program.argv (1-based)
  rc,           \* main's rc
  total_built,  \* main's total_built
  summary,      \* the summary line printed by main, or NoSummary
  exitCode,     \* exit status of the process once main returned, else -1
  execCount,    \* history: manifest path -> number of system() calls
  firstFail,    \* history: status of the first argument that failed, or 0
  run,          \* 1, or 2 for the run repeated with HAVE_PTHREADS
  first         \* registry and rc at the end of run 1 (run 2 only)

\* clib-install (clib-install.c)
VARIABLES
  cmdline,      \* argv and the options dev, savedev, nosave (fixed)
  project,      \* the manifest files of the project directory, by name
  project0,     \* history: the manifest files when clib-install started
  installed,    \* repos fetched into the output directory
  ipc,          \* position of main / install_packages / install_package
  ii,           \* loop index of install_packages (1-based)
  pkg,          \* install_package's pkg, or NoPkg
  irc,          \* install_package's return value
  code,         \* main's code
  invoked,      \* history: arguments install_package was called for
  failures,     \* history: arguments install_package failed for
  passed,       \* history: steps of the current argument that succeeded
  writes        \* history: manifest writes, one record per write

installVars == <<cmdline, project, project0, installed, ipc, ii, pkg, irc, code,
                 invoked, failures, passed, writes>>

vars == <<world, threads, opts, built, mutex, frames, pcMain, argi, rc,
          total_built, summary, exitCode, execCount, firstFail, run, first,
          installVars>>

buildVars == <<world, threads, opts, built, mutex, frames, pcMain, argi, rc,
               total_built, summary, exitCode, execCount, firstFail, run,
               first>>

NoSummary == [text |-> "", n |-> 0]

NoResult == [built |-> <<>>, rc |-> 0]

\* ------------------------------------------------------------------------
\* Frames
\* ------------------------------------------------------------------------

\* first statement of build_package_with_package_name after path_join
EntryPc == IF threads THEN "lock1" ELSE "check"

\* locals of build_package (dir, ni) and of
\* build_package_with_package_name (the rest) at entry
NewFrame(dir) ==
  [dir |-> dir, ni |-> 1, pc |-> EntryPc, rc |-> 0, ok |-> 0,
   phase |-> "dependencies", it |-> 1, i |-> 0, j |-> 0, thr |-> <<>>,
   cmd |-> 0, failed |-> {}]

Path(f) == path_join(frames[f].dir, package_names[frames[f].ni])

\* the package parsed from the manifest of frame f (after "load")
Package(f) == world.files[Path(f)]

Parent(c) == SubSeq(c, 1, Len(c) - 1)

Children(f) == {c \in DOMAIN frames : Len(c) = Len(f) + 1 /\ Parent(c) = f}

\* frames run by worker threads (the top-level frames run on main's thread)
IsWorker(f) == threads /\ Len(f) > 2

Put(f, fr) == [g \in DOMAIN frames \cup {f} |-> IF g = f THEN fr ELSE frames[g]]

\* frame f becomes fr, frame c is created with record cr
PutNew(f, fr, c, cr) ==
  [g \in DOMAIN frames \cup {c} |->
     IF g = f THEN fr ELSE IF g = c THEN cr ELSE frames[g]]

\* frame f becomes fr, frame c is joined / has returned
PutDel(f, fr, c) ==
  [g \in DOMAIN frames \ {c} |-> IF g = f THEN fr ELSE frames[g]]

\* the list iterated in the current phase of frame f
List(f) ==
  IF frames[f].phase = "dependencies"
    THEN Package(f).dependencies
    ELSE Package(f).development

\* position of the current list element among all children of f
Slot(f) ==
  IF frames[f].phase = "dependencies"
    THEN frames[f].it
    ELSE Len(Package(f).dependencies) + frames[f].it

\* the development dependencies are built whether or not opts.dev is set
AfterList_AlwaysDev(f, fr) ==
  IF fr.phase = "dependencies"
    THEN [fr EXCEPT !.phase = "development", !.it = 1, !.i = 0, !.j = 0,
                    !.thr = <<>>, !.pc = "deps"]
    ELSE [fr EXCEPT !.pc = "cleanup"]

\* after the runtime dependencies: the development dependencies when
\* opts.dev is set, else cleanup; after the development ones: cleanup
AfterList(f, fr) ==
  IF fr.phase = "dependencies" /\ opts.dev
    THEN [fr EXCEPT !.phase = "development", !.it = 1, !.i = 0, !.j = 0,
                    !.thr = <<>>, !.pc = "deps"]
    ELSE [fr EXCEPT !.pc = "cleanup"]

\* hash_each(built, ...) of main
CountBuilt(reg) == Cardinality({k \in DOMAIN reg : StartsWithT(reg[k])})

Message(n) ==
  IF n > 1 THEN [text |-> "built %d packages", n |-> n]
  ELSE IF n = 1 THEN [text |-> "built 1 package", n |-> 1]
  ELSE [text |-> "built 0 packages", n |-> 0]

\* a registry that marks every package as built
Mark_AlwaysBuilt(makefile) == IF makefile THEN T ELSE T

\* value recorded in the registry for a package
Mark(makefile) == IF makefile THEN T ELSE F

\* a wave that is joined one worker too late
WaveFull_OffByOne(i) == i > opts.concurrency

\* `++i >= opts.concurrency`, i already incremented
WaveFull(i) == i >= opts.concurrency

\* ------------------------------------------------------------------------
\* Initial state: after hash_new/hash_set and command_parse in main
\* ------------------------------------------------------------------------

Registry0 == PROGRAM_KEY :> CLIB_VERSION

AllPaths ==
  UNION {DOMAIN w.files : w \in Worlds} \cup
  {path_join(d, package_names[k]) :
     d \in {CWD} \cup {Dep(a) : a \in {"a", "b", "x", "y", "m", "s"}}
             \cup {Dep(DepNames[i]) : i \in 1..Len(DepNames)}
             \cup {<<a>> : a \in {"a", "m", "s"}},
     k \in 1..2}

\* ------------------------------------------------------------------------
\* clib-install: values of its state while it is not running
\* ------------------------------------------------------------------------

NoPkg == [repo |-> <<>>, version |-> ""]

NoCmdline == [argv |-> <<>>, dev |-> FALSE, savedev |-> FALSE, nosave |-> FALSE]

Absent == [st |-> "absent", fmt |-> "", doc |-> <<>>]

manifest_names == <<"clib.json", "package.json">>

InstallIdle ==
  /\ cmdline = NoCmdline
  /\ project = [f \in {manifest_names[k] : k \in 1..Len(manifest_names)} |-> Absent]
  /\ project0 = project
  /\ installed = {}
  /\ ipc = "idle"
  /\ ii = 1
  /\ pkg = NoPkg
  /\ irc = 0
  /\ code = 0
  /\ invoked = {}
  /\ failures = {}
  /\ passed = {}
  /\ writes = {}

Init ==
  /\ world \in Worlds
  /\ threads \in BOOLEAN
  /\ opts \in [dev : BOOLEAN, verbose : BOOLEAN, concurrency : Concurrencies]
  /\ built = Registry0
  /\ mutex = NoOwner
  /\ frames = <<>>
  /\ pcMain = "start"
  /\ argi = 1
  /\ rc = 0
  /\ total_built = 0
  /\ summary = NoSummary
  /\ exitCode = -1
  /\ execCount = [p \in AllPaths |-> 0]
  /\ firstFail = 0
  /\ run = 1
  /\ first = NoResult
  /\ InstallIdle

\* ------------------------------------------------------------------------
\* build_package_with_package_name(dir, file)
\* ------------------------------------------------------------------------

\* an unlock that leaves the mutex with its owner
Unlocked_Held == mutex

\* pthread_mutex_unlock: the mutex exists only with HAVE_PTHREADS
Unlocked == IF threads THEN NoOwner ELSE mutex

\* pthread_mutex_lock before the registry lookup
Lock1(f) ==
  /\ frames[f].pc = "lock1"
  /\ mutex = NoOwner
  /\ mutex' = f
  /\ frames' = Put(f, [frames[f] EXCEPT !.pc = "check"])
  /\ UNCHANGED <<world, threads, opts, built, pcMain, argi, rc, total_built,
                 summary, exitCode, execCount, firstFail, run, first, installVars>>

\* a lookup that never finds the path
Check_NoDedup(f) ==
  /\ frames[f].pc = "check"
  /\ frames' = Put(f, [frames[f] EXCEPT !.pc = "load"])
  /\ mutex' = Unlocked
  /\ UNCHANGED <<world, threads, opts, built, pcMain, argi, rc, total_built,
                 summary, exitCode, execCount, firstFail, run, first,
                 installVars>>

\* hash_has(built, path): a known path goes to cleanup with rc = 0;
\* the mutex is released on both branches
Check(f) ==
  /\ frames[f].pc = "check"
  /\ frames' = Put(f, [frames[f] EXCEPT
                         !.pc = IF Path(f) \in DOMAIN built
                                  THEN "cleanup" ELSE "load"])
  /\ mutex' = Unlocked
  /\ UNCHANGED <<world, threads, opts, built, pcMain, argi, rc, total_built,
                 summary, exitCode, execCount, firstFail, run, first, installVars>>

\* fs_exists, fs_read, clib_package_new and the test of package->makefile
Load(f) ==
  /\ frames[f].pc = "load"
  /\ frames' = Put(f,
       IF Path(f) \notin DOMAIN world.files
         THEN [frames[f] EXCEPT !.rc = -ENOENT, !.pc = "cleanup"]
       ELSE IF Package(f).json # "ok"
         THEN [frames[f] EXCEPT !.rc = -ENOMEM, !.pc = "cleanup"]
       ELSE IF Package(f).makefile
         THEN [frames[f] EXCEPT !.pc = "system"]
       ELSE [frames[f] EXCEPT !.pc = IF threads THEN "lock2" ELSE "set"])
  /\ UNCHANGED <<world, threads, opts, built, mutex, pcMain, argi, rc,
                 total_built, summary, exitCode, execCount, firstFail, run,
                 first, installVars>>

\* rc = system(command)
System(f) ==
  /\ frames[f].pc = "system"
  /\ frames' = Put(f, [frames[f] EXCEPT
                         !.rc = Package(f).status,
                         !.cmd = Package(f).status,
                         !.pc = IF threads THEN "lock2" ELSE "set"])
  /\ execCount' = [execCount EXCEPT ![Path(f)] = @ + 1]
  /\ UNCHANGED <<world, threads, opts, built, mutex, pcMain, argi, rc,
                 total_built, summary, exitCode, firstFail, run, first, installVars>>

\* rc = pthread_mutex_lock(&mutex), in both branches of the makefile test
Lock2(f) ==
  /\ frames[f].pc = "lock2"
  /\ mutex = NoOwner
  /\ mutex' = f
  /\ frames' = Put(f, [frames[f] EXCEPT !.rc = 0, !.pc = "set"])
  /\ UNCHANGED <<world, threads, opts, built, pcMain, argi, rc, total_built,
                 summary, exitCode, execCount, firstFail, run, first, installVars>>

\* hash_set(built, path, "t" / "f"); ok = 1; if (0 != rc) goto cleanup;
\* pthread_mutex_unlock
Set(f) ==
  /\ frames[f].pc = "set"
  /\ built' = [k \in DOMAIN built \cup {Path(f)} |->
                 IF k = Path(f) THEN Mark(Package(f).makefile) ELSE built[k]]
  /\ IF frames[f].rc # 0
       THEN /\ frames' = Put(f, [frames[f] EXCEPT !.ok = 1, !.pc = "cleanup"])
            /\ UNCHANGED mutex
       ELSE /\ frames' = Put(f, [frames[f] EXCEPT !.ok = 1, !.pc = "deps"])
            /\ mutex' = Unlocked
  /\ UNCHANGED <<world, threads, opts, pcMain, argi, rc, total_built,
                 summary, exitCode, execCount, firstFail, run, first, installVars>>

\* with HAVE_PTHREADS, one iteration of the while loop up to `++i`:
\* the worker for the next dependency is created
Spawn(f) ==
  /\ threads
  /\ frames[f].pc = "deps"
  /\ frames[f].it <= Len(List(f))
  /\ LET c == Append(f, Slot(f))
         fr == [frames[f] EXCEPT !.rc = 0, !.it = @ + 1, !.i = @ + 1, !.j = 0,
                                 !.thr = Append(@, c)]
     IN frames' = PutNew(f,
                    [fr EXCEPT !.pc = IF WaveFull(fr.i) THEN "join" ELSE "deps"],
                    c, NewFrame(Dep(List(f)[frames[f].it])))
  /\ UNCHANGED <<world, threads, opts, built, mutex, pcMain, argi, rc,
                 total_built, summary, exitCode, execCount, firstFail, run,
                 first, installVars>>

\* pthread_join(threads[j], 0) inside the while loop; after the last one i = 0
JoinWave(f) ==
  /\ frames[f].pc = "join"
  /\ LET c == frames[f].thr[frames[f].j + 1]
         fr == [frames[f] EXCEPT !.j = @ + 1,
                                 !.failed = IF frames[c].rc # 0
                                             THEN @ \cup {frames[f].phase} ELSE @]
     IN /\ frames[c].pc = "done"
        /\ frames' = PutDel(f,
             IF fr.j < fr.i
               THEN fr
               ELSE [fr EXCEPT !.i = 0, !.j = 0, !.thr = <<>>, !.pc = "deps"],
             c)
  /\ UNCHANGED <<world, threads, opts, built, mutex, pcMain, argi, rc,
                 total_built, summary, exitCode, execCount, firstFail, run,
                 first, installVars>>

\* the end of the list without the join loop after the while loop
EndList_NoJoin(f) ==
  /\ threads
  /\ frames[f].pc = "deps"
  /\ frames[f].it > Len(List(f))
  /\ frames' = Put(f, AfterList(f, frames[f]))
  /\ UNCHANGED <<world, threads, opts, built, mutex, pcMain, argi, rc,
                 total_built, summary, exitCode, execCount, firstFail, run,
                 first, installVars>>

\* with HAVE_PTHREADS, the end of the list: the join loop after the while
\* loop is entered when i > 0
EndList(f) ==
  /\ threads
  /\ frames[f].pc = "deps"
  /\ frames[f].it > Len(List(f))
  /\ frames' = Put(f,
       IF frames[f].i > 0
         THEN [frames[f] EXCEPT !.j = 0, !.pc = "tail"]
         ELSE AfterList(f, frames[f]))
  /\ UNCHANGED <<world, threads, opts, built, mutex, pcMain, argi, rc,
                 total_built, summary, exitCode, execCount, firstFail, run,
                 first, installVars>>

\* pthread_join(threads[j], 0) after the while loop
JoinTail(f) ==
  /\ frames[f].pc = "tail"
  /\ LET c == frames[f].thr[frames[f].j + 1]
         fr == [frames[f] EXCEPT !.j = @ + 1,
                                 !.failed = IF frames[c].rc # 0
                                             THEN @ \cup {frames[f].phase} ELSE @]
     IN /\ frames[c].pc = "done"
        /\ frames' = PutDel(f,
             IF fr.j < fr.i THEN fr ELSE AfterList(f, fr), c)
  /\ UNCHANGED <<world, threads, opts, built, mutex, pcMain, argi, rc,
                 total_built, summary, exitCode, execCount, firstFail, run,
                 first, installVars>>

\* without HAVE_PTHREADS: rc = build_package(dep_dir), the call
CallDep(f) ==
  /\ ~threads
  /\ frames[f].pc = "deps"
  /\ frames[f].it <= Len(List(f))
  /\ frames' = PutNew(f, [frames[f] EXCEPT !.it = @ + 1, !.pc = "wait"],
                      Append(f, Slot(f)),
                      NewFrame(Dep(List(f)[frames[f].it])))
  /\ UNCHANGED <<world, threads, opts, built, mutex, pcMain, argi, rc,
                 total_built, summary, exitCode, execCount, firstFail, run,
                 first, installVars>>

\* without HAVE_PTHREADS: the call returns; if (0 != rc) goto cleanup
ReturnDep(f) ==
  /\ frames[f].pc = "wait"
  /\ \E c \in Children(f) :
       /\ frames[c].pc = "done"
       /\ frames' = PutDel(f,
            [frames[f] EXCEPT !.rc = frames[c].rc,
                              !.failed = IF frames[c].rc # 0
                                             THEN @ \cup {frames[f].phase} ELSE @,
                              !.pc = IF frames[c].rc # 0
                                       THEN "cleanup" ELSE "deps"],
            c)
  /\ UNCHANGED <<world, threads, opts, built, mutex, pcMain, argi, rc,
                 total_built, summary, exitCode, execCount, firstFail, run,
                 first, installVars>>

\* without HAVE_PTHREADS, the end of the list
EndCalls(f) ==
  /\ ~threads
  /\ frames[f].pc = "deps"
  /\ frames[f].it > Len(List(f))
  /\ frames' = Put(f, AfterList(f, frames[f]))
  /\ UNCHANGED <<world, threads, opts, built, mutex, pcMain, argi, rc,
                 total_built, summary, exitCode, execCount, firstFail, run,
                 first, installVars>>

\* ------------------------------------------------------------------------
\* build_package(dir)
\* ------------------------------------------------------------------------

\* `return rc` of build_package_with_package_name and the loop condition
\* `NULL != package_names[++i] && 0 != rc` of build_package
Return(f) ==
  /\ frames[f].pc = "cleanup"
  /\ frames' = Put(f,
       IF frames[f].ni < Len(package_names) /\ frames[f].rc # 0
         THEN [NewFrame(frames[f].dir) EXCEPT !.ni = frames[f].ni + 1]
         ELSE [frames[f] EXCEPT !.pc = "done"])
  /\ UNCHANGED <<world, threads, opts, built, mutex, pcMain, argi, rc,
                 total_built, summary, exitCode, execCount, firstFail, run,
                 first, installVars>>

\* ------------------------------------------------------------------------
\* main
\* ------------------------------------------------------------------------

argc == Len(world.argv)

\* if (0 == program.argc) rc = build_package(strdup(CWD)), the call
MainBegin ==
  /\ pcMain = "start"
  /\ IF argc = 0
       THEN /\ frames' = Put(<<0, 1>>, NewFrame(CWD))
            /\ pcMain' = "cwd"
       ELSE /\ pcMain' = "loop"
            /\ UNCHANGED frames
  /\ UNCHANGED <<world, threads, opts, built, mutex, argi, rc, total_built,
                 summary, exitCode, execCount, firstFail, run, first, installVars>>

\* build_package(CWD) returns
MainCwd ==
  /\ pcMain = "cwd"
  /\ frames[<<0, 1>>].pc = "done"
  /\ rc' = frames[<<0, 1>>].rc
  /\ firstFail' = frames[<<0, 1>>].rc
  /\ frames' = [g \in DOMAIN frames \ {<<0, 1>>} |-> frames[g]]
  /\ pcMain' = "count"
  /\ UNCHANGED <<world, threads, opts, built, mutex, argi, total_built,
                 summary, exitCode, execCount, run, first, installVars>>

\* for (i < program.argc): rc = build_package(path_join(opts.dir, argv[i]))
MainLoop ==
  /\ pcMain = "loop"
  /\ IF argi <= argc
       THEN /\ frames' = Put(<<argi, 1>>, NewFrame(Dep(world.argv[argi])))
            /\ pcMain' = "arg"
       ELSE /\ pcMain' = "count"
            /\ UNCHANGED frames
  /\ UNCHANGED <<world, threads, opts, built, mutex, argi, rc, total_built,
                 summary, exitCode, execCount, firstFail, run, first, installVars>>

\* the call returns; if (0 != rc) rc = build_package(program.argv[i])
MainArg ==
  /\ pcMain = "arg"
  /\ frames[<<argi, 1>>].pc = "done"
  /\ rc' = frames[<<argi, 1>>].rc
  /\ IF rc' # 0
       THEN /\ frames' = [g \in (DOMAIN frames \ {<<argi, 1>>})
                                    \cup {<<argi, 2>>} |->
                             IF g = <<argi, 2>>
                               THEN NewFrame(<<world.argv[argi]>>)
                               ELSE frames[g]]
            /\ pcMain' = "slug"
            /\ UNCHANGED argi
       ELSE /\ frames' = [g \in DOMAIN frames \ {<<argi, 1>>} |-> frames[g]]
            /\ pcMain' = "loop"
            /\ argi' = argi + 1
  /\ UNCHANGED <<world, threads, opts, built, mutex, total_built, summary,
                 exitCode, execCount, firstFail, run, first, installVars>>

\* the call with the slug returns
MainSlug ==
  /\ pcMain = "slug"
  /\ frames[<<argi, 2>>].pc = "done"
  /\ rc' = frames[<<argi, 2>>].rc
  /\ firstFail' = IF firstFail = 0 THEN rc' ELSE firstFail
  /\ frames' = [g \in DOMAIN frames \ {<<argi, 2>>} |-> frames[g]]
  /\ pcMain' = "loop"
  /\ argi' = argi + 1
  /\ UNCHANGED <<world, threads, opts, built, mutex, total_built, summary,
                 exitCode, execCount, run, first, installVars>>

\* hash_each counts the "t" entries; the summary is printed inside
\* `if (0 == rc)` and `if (opts.verbose)`; return rc
MainFinish ==
  /\ pcMain = "count"
  /\ total_built' = CountBuilt(built)
  /\ summary' = IF rc = 0 /\ opts.verbose
                  THEN Message(total_built') ELSE NoSummary
  /\ exitCode' = rc % 256
  /\ pcMain' = "done"
  /\ UNCHANGED <<world, threads, opts, built, mutex, frames, argi, rc,
                 execCount, firstFail, run, first, installVars>>

\* ------------------------------------------------------------------------
\* Specifications
\* ------------------------------------------------------------------------

Next ==
  \/ \E f \in DOMAIN frames : Lock1(f)
  \/ \E f \in DOMAIN frames : Check(f)
  \/ \E f \in DOMAIN frames : Load(f)
  \/ \E f \in DOMAIN frames : System(f)
  \/ \E f \in DOMAIN frames : Lock2(f)
  \/ \E f \in DOMAIN frames : Set(f)
  \/ \E f \in DOMAIN frames : Spawn(f)
  \/ \E f \in DOMAIN frames : JoinWave(f)
  \/ \E f \in DOMAIN frames : EndList(f)
  \/ \E f \in DOMAIN frames : JoinTail(f)
  \/ \E f \in DOMAIN frames : CallDep(f)
  \/ \E f \in DOMAIN frames : ReturnDep(f)
  \/ \E f \in DOMAIN frames : EndCalls(f)
  \/ \E f \in DOMAIN frames : Return(f)
  \/ MainBegin
  \/ MainCwd
  \/ MainLoop
  \/ MainArg
  \/ MainSlug
  \/ MainFinish

Spec == Init /\ [][Next]_vars

\* a thread that can take a step eventually takes one: main and the workers
\* are scheduled by the operating system, system() returns, and
\* pthread_mutex_lock returns once the mutex is free
SpecFair == Init /\ [][Next]_vars /\ WF_vars(Next)

\* the same project is built once without HAVE_PTHREADS and then once more
\* with HAVE_PTHREADS, from a fresh registry
Rerun ==
  /\ pcMain = "done"
  /\ run = 1
  /\ ~threads
  /\ first' = [built |-> built, rc |-> rc]
  /\ run' = 2
  /\ threads' = TRUE
  /\ built' = Registry0
  /\ mutex' = NoOwner
  /\ frames' = <<>>
  /\ pcMain' = "start"
  /\ argi' = 1
  /\ rc' = 0
  /\ total_built' = 0
  /\ summary' = NoSummary
  /\ exitCode' = -1
  /\ execCount' = [p \in AllPaths |-> 0]
  /\ firstFail' = 0
  /\ UNCHANGED <<world, opts, installVars>>

NextCompare ==
  \/ Next
  \/ Rerun

SpecCompare == Init /\ [][NextCompare]_vars

\* ------------------------------------------------------------------------
\* clib-install: JSON documents (parson) and manifest files
\* ------------------------------------------------------------------------

\* a JSON object is a sequence of entries, a value is a string or an object
Entry(k, v) == [k |-> k, v |-> v]

Str(x) == [t |-> "str", s |-> x, o |-> <<>>]

Obj(o) == [t |-> "obj", s |-> <<>>, o |-> o]

\* position of key in object, 0 if absent
IndexOf(obj, key) ==
  IF \E n \in 1..Len(obj) : obj[n].k = key
    THEN CHOOSE n \in 1..Len(obj) : obj[n].k = key
    ELSE 0

\* json_object_set_value: replaces the value of an existing key in place,
\* appends a new entry otherwise
json_object_set_value(obj, key, val) ==
  IF IndexOf(obj, key) = 0
    THEN Append(obj, Entry(key, val))
    ELSE [obj EXCEPT ![IndexOf(obj, key)] = Entry(key, val)]

json_object_set_string(obj, key, x) == json_object_set_value(obj, key, Str(x))

\* json_object_dotget_object(obj, name) # NULL, for a name without dots
HasObject(obj, name) ==
  IndexOf(obj, name) # 0 /\ obj[IndexOf(obj, name)].v.t = "obj"

\* json_object_dotget_object(obj, name) when it is not NULL
json_object_dotget_object(obj, name) == obj[IndexOf(obj, name)].v.o

\* a manifest file: the text of a document, compact or pretty-printed
File(fmt, doc) == [st |-> "json", fmt |-> fmt, doc |-> doc]

\* a file that is no JSON object
Garbage == [st |-> "garbage", fmt |-> "", doc |-> <<>>]

\* json_parse_file(file) # NULL && json_object(...) # NULL
Parses(content) == content.st = "json"

\* json_serialize_to_file_pretty(value, file): the text written
json_serialize_to_file_pretty(doc) == File("pretty", doc)

\* a write that appends the section instead of setting it
write_dependency_with_package_name_Append(proj, p, prefix, file) ==
  IF ~Parses(proj[file])
    THEN [rc |-> 1, project |-> proj]
    ELSE [rc |-> 0,
          project |-> [proj EXCEPT ![file] = json_serialize_to_file_pretty(
             Append(proj[file].doc,
                    Entry(prefix, Obj(<<Entry(p.repo, Str(p.version))>>))))]]

\* a write that always starts from a new, empty section
write_dependency_with_package_name_Fresh(proj, p, prefix, file) ==
  IF ~Parses(proj[file])
    THEN [rc |-> 1, project |-> proj]
    ELSE [rc |-> 0,
          project |-> [proj EXCEPT ![file] = json_serialize_to_file_pretty(
             json_object_set_value(proj[file].doc, prefix,
               Obj(<<Entry(p.repo, Str(p.version))>>)))]]

\* write_dependency_with_package_name(pkg, prefix, file): the return value
\* and the manifest files afterwards
write_dependency_with_package_name(proj, p, prefix, file) ==
  IF ~Parses(proj[file])
    THEN [rc |-> 1, project |-> proj]
    ELSE
      LET packageJsonObject == proj[file].doc
          depSection ==
            IF HasObject(packageJsonObject, prefix)
              THEN json_object_dotget_object(packageJsonObject, prefix)
              ELSE <<>>
          section == json_object_set_string(depSection, p.repo, p.version)
      IN [rc |-> 0,
          project |-> [proj EXCEPT ![file] = json_serialize_to_file_pretty(
             json_object_set_value(packageJsonObject, prefix, Obj(section)))]]

\* the do-while loop of write_dependency from manifest_names[i] on
RECURSIVE write_dependency_from(_, _, _, _)
write_dependency_from(proj, p, prefix, i) ==
  LET r == write_dependency_with_package_name(proj, p, prefix,
                                              manifest_names[i])
  IN IF i < Len(manifest_names) /\ r.rc # 0
       THEN write_dependency_from(proj, p, prefix, i + 1)
       ELSE r

write_dependency(proj, p, prefix) == write_dependency_from(proj, p, prefix, 1)

\* ------------------------------------------------------------------------
\* clib-install: the command line and the project directory
\* ------------------------------------------------------------------------

\* the argument "."
ArgDot ==
  [kind |-> "dot", slug |-> <<".">>, known |-> FALSE, resolved |-> NoPkg,
   install |-> 0, development |-> 0]

\* the name of a manifest file of the project directory
ArgFile ==
  [kind |-> "file", slug |-> <<"package.json">>, known |-> FALSE,
   resolved |-> NoPkg, install |-> 0, development |-> 0]

\* a slug: whether clib_package_new_from_slug finds it, the package found,
\* the results of clib_package_install and clib_package_install_development
Slug(slug, known, repo, version, install, development) ==
  [kind |-> "slug", slug |-> slug, known |-> known,
   resolved |-> [repo |-> repo, version |-> version],
   install |-> install, development |-> development]

ArgPinned == Slug(<<"foo/bar", "@", "1.2.0">>, TRUE, <<"foo/bar">>, "1.2.0", 0, 0)

ArgBare == Slug(<<"baz">>, TRUE, <<"clibs/baz">>, "0.3.0", 0, 0)

ArgUnknown == Slug(<<"no/such">>, FALSE, <<>>, "", 0, 0)

ArgFetchFails == Slug(<<"x/y">>, TRUE, <<"x/y">>, "0.1.0", -1, 0)

ArgDevFails == Slug(<<"p/q">>, TRUE, <<"p/q">>, "2.0.0", 0, -1)

Args ==
  {ArgDot, ArgFile, ArgPinned, ArgBare, ArgUnknown, ArgFetchFails, ArgDevFails}

Argvs == UNION {[1..n -> Args] : n \in 0..MaxArgs}

DocPlain == <<Entry("name", Str("proj")), Entry("version", Str("0.0.1"))>>

DocDeps ==
  <<Entry("name", Str("proj")),
    Entry("dependencies",
          Obj(<<Entry(<<"foo/bar">>, Str("1.0.0")),
                Entry(<<"x/y">>, Str("0.1.0"))>>)),
    Entry("license", Str("MIT"))>>

\* `dependencies` is present but is no object
DocOdd ==
  <<Entry("dependencies", Str("none")), Entry("name", Str("proj"))>>

Projects ==
  {(manifest_names[1] :> c) @@ (manifest_names[2] :> l) :
     c \in {Absent, Garbage, File("compact", DocPlain),
            File("pretty", DocDeps), File("compact", DocOdd)},
     l \in {Absent, File("compact", DocDeps)}}

Sections == {"dependencies", "development"}

\* the packages a write is tried with
Pkgs ==
  {[repo |-> <<"foo/bar">>, version |-> "1.2.0"],
   [repo |-> <<"n/ew">>, version |-> "0.0.1"]}

\* ------------------------------------------------------------------------
\* clib-install: install_local_packages, install_package, install_packages
\* ------------------------------------------------------------------------

\* keys of the object at `name` of a manifest file, {} if there is none
SectionKeys(content, name) ==
  IF Parses(content) /\ HasObject(content.doc, name)
    THEN {json_object_dotget_object(content.doc, name)[n].k :
            n \in 1..Len(json_object_dotget_object(content.doc, name))}
    ELSE {}

\* install_local_packages_with_package_name(file): 1 when the file is not
\* a valid manifest, else 0 (the installation of the dependencies it lists
\* is taken to succeed)
install_local_packages_with_package_name(file) ==
  IF Parses(project[file]) THEN 0 ELSE 1

\* the do-while loop of install_local_packages from manifest_names[i] on
RECURSIVE install_local_packages_from(_)
install_local_packages_from(i) ==
  LET r == install_local_packages_with_package_name(manifest_names[i])
  IN IF i < Len(manifest_names) /\ r # 0
       THEN install_local_packages_from(i + 1)
       ELSE r

install_local_packages == install_local_packages_from(1)

\* the dependencies a local install fetches
LocalRepos ==
  LET used == {manifest_names[i] : i \in {k \in 1..Len(manifest_names) :
                 /\ Parses(project[manifest_names[k]])
                 /\ \A h \in 1..(k - 1) : ~Parses(project[manifest_names[h]])}}
  IN UNION {SectionKeys(project[f], "dependencies") \cup
            (IF cmdline.dev THEN SectionKeys(project[f], "development")
                            ELSE {}) : f \in used}

\* strchr(slug, '@'): position of the '@', 0 if there is none
AtSign(slug) == IndexOf([n \in 1..Len(slug) |-> Entry(slug[n], slug[n])], "@")

\* an argument that is always saved
Saving_Always == TRUE

\* `!opts.nosave`
Saving == ~cmdline.nosave

\* `opts.savedev ? save_dev_dependency(pkg) : save_dependency(pkg)`
SaveSection == IF cmdline.savedev THEN "development" ELSE "dependencies"

argn == Len(cmdline.argv)

Arg == cmdline.argv[ii]

InstallInit ==
  /\ cmdline \in [argv : Argvs, dev : BOOLEAN, savedev : BOOLEAN,
                  nosave : BOOLEAN]
  /\ project \in Projects
  /\ project0 = project
  /\ installed = {}
  /\ ipc = "start"
  /\ ii = 1
  /\ pkg = NoPkg
  /\ irc = 0
  /\ code = 0
  /\ invoked = {}
  /\ failures = {}
  /\ passed = {}
  /\ writes = {}
  /\ world = NoManifest
  /\ threads = FALSE
  /\ opts = [dev |-> FALSE, verbose |-> FALSE, concurrency |-> 1]
  /\ built = Registry0
  /\ mutex = NoOwner
  /\ frames = <<>>
  /\ pcMain = "idle"
  /\ argi = 1
  /\ rc = 0
  /\ total_built = 0
  /\ summary = NoSummary
  /\ exitCode = -1
  /\ execCount = [p \in AllPaths |-> 0]
  /\ firstFail = 0
  /\ run = 1
  /\ first = NoResult

\* main: `0 == program.argc ? install_local_packages() : install_packages()`
IMain ==
  /\ ipc = "start"
  /\ IF argn = 0
       THEN /\ code' = install_local_packages
            /\ installed' = IF code' = 0 THEN installed \cup LocalRepos
                                         ELSE installed
            /\ ipc' = "exit"
       ELSE /\ ipc' = "loop"
            /\ UNCHANGED <<code, installed>>
  /\ UNCHANGED <<cmdline, project0, project, ii, pkg, irc, invoked, failures, passed,
                 writes, buildVars>>

\* install_packages: `for (i < n)` and the call of install_package(pkgs[i])
ILoop ==
  /\ ipc = "loop"
  /\ IF ii <= argn
       THEN /\ invoked' = invoked \cup {ii}
            /\ ipc' = "classify"
            /\ UNCHANGED code
       ELSE /\ code' = 0
            /\ ipc' = "exit"
            /\ UNCHANGED invoked
  /\ pkg' = NoPkg
  /\ passed' = {}
  /\ UNCHANGED <<cmdline, project0, project, installed, ii, irc, failures, writes,
                 buildVars>>

\* install_package up to `if (NULL == pkg) return -1`: "." installs the
\* local packages, an existing regular file is installed as a manifest,
\* anything else is resolved as a slug
IClassify ==
  /\ ipc = "classify"
  /\ IF Arg.kind = "dot"
       THEN /\ irc' = install_local_packages
            /\ installed' = IF irc' = 0 THEN installed \cup LocalRepos
                                        ELSE installed
            /\ ipc' = "return"
            /\ UNCHANGED pkg
     ELSE IF Arg.kind = "file" /\ project[Arg.slug[1]].st # "absent"
       THEN /\ irc' = install_local_packages_with_package_name(Arg.slug[1])
            /\ installed' = IF irc' = 0
                              THEN installed \cup
                                   SectionKeys(project[Arg.slug[1]], "dependencies")
                                   \cup (IF cmdline.dev
                                           THEN SectionKeys(project[Arg.slug[1]],
                                                            "development")
                                           ELSE {})
                              ELSE installed
            /\ ipc' = "return"
            /\ UNCHANGED pkg
     ELSE IF ~Arg.known
       THEN /\ irc' = -1
            /\ ipc' = "return"
            /\ UNCHANGED <<pkg, installed>>
     ELSE /\ pkg' = Arg.resolved
          /\ ipc' = "install"
          /\ UNCHANGED <<irc, installed>>
  /\ UNCHANGED <<cmdline, project0, project, ii, code, invoked, failures, passed,
                 writes, buildVars>>

\* rc = clib_package_install(pkg, ...); if (0 != rc) goto cleanup
IInstall ==
  /\ ipc = "install"
  /\ irc' = Arg.install
  /\ IF irc' # 0
       THEN /\ ipc' = "return"
            /\ UNCHANGED <<installed, passed>>
       ELSE /\ installed' = installed \cup {pkg.repo}
            /\ passed' = passed \cup {"install"}
            /\ ipc' = IF cmdline.dev THEN "development" ELSE "repo"
  /\ UNCHANGED <<cmdline, project0, project, ii, pkg, code, invoked, failures, writes,
                 buildVars>>

\* rc = clib_package_install_development(pkg, ...); if (0 != rc) goto cleanup
IDevelopment ==
  /\ ipc = "development"
  /\ irc' = Arg.development
  /\ IF irc' # 0
       THEN /\ ipc' = "return"
            /\ UNCHANGED passed
       ELSE /\ passed' = passed \cup {"development"}
            /\ ipc' = "repo"
  /\ UNCHANGED <<cmdline, project0, project, installed, ii, pkg, code, invoked,
                 failures, writes, buildVars>>

\* pkg->repo is replaced when it differs from the slug: by the slug, or by
\* the characters before '@', copied without a terminating 0 (the string
\* read later may run on into the bytes that follow)
IRepo ==
  /\ ipc = "repo"
  /\ IF pkg.repo = <<>> \/ Arg.slug # pkg.repo
       THEN IF AtSign(Arg.slug) # 0
              THEN \E tail \in {<<>>, <<"?">>} :
                     pkg' = [pkg EXCEPT !.repo =
                               SubSeq(Arg.slug, 1, AtSign(Arg.slug) - 1) \o tail]
              ELSE pkg' = [pkg EXCEPT !.repo = Arg.slug]
       ELSE UNCHANGED pkg
  /\ ipc' = "save"
  /\ UNCHANGED <<cmdline, project0, project, installed, ii, irc, code, invoked,
                 failures, passed, writes, buildVars>>

\* if (!opts.nosave) save_dev_dependency(pkg) or save_dependency(pkg);
\* the result of the write is not looked at
ISave ==
  /\ ipc = "save"
  /\ IF Saving
       THEN /\ project' = write_dependency(project, pkg, SaveSection).project
            /\ writes' = writes \cup
                 {[arg |-> ii, section |-> SaveSection, repo |-> pkg.repo,
                   version |-> pkg.version,
                   rc |-> write_dependency(project, pkg, SaveSection).rc]}
       ELSE UNCHANGED <<project, writes>>
  /\ ipc' = "return"
  /\ UNCHANGED <<cmdline, project0, installed, ii, pkg, irc, code, invoked, failures,
                 passed, buildVars>>

\* install_package returns rc; install_packages returns 1 when it is -1
IReturn ==
  /\ ipc = "return"
  /\ failures' = IF irc # 0 THEN failures \cup {ii} ELSE failures
  /\ IF irc = -1
       THEN /\ code' = 1
            /\ ipc' = "exit"
            /\ UNCHANGED ii
       ELSE /\ ii' = ii + 1
            /\ ipc' = "loop"
            /\ UNCHANGED code
  /\ UNCHANGED <<cmdline, project0, project, installed, pkg, irc, invoked, passed,
                 writes, buildVars>>

InstallNext ==
  \/ IMain
  \/ ILoop
  \/ IClassify
  \/ IInstall
  \/ IDevelopment
  \/ IRepo
  \/ ISave
  \/ IReturn

SpecInstall == InstallInit /\ [][InstallNext]_vars

\* ------------------------------------------------------------------------
\* Properties
\* ------------------------------------------------------------------------

\* worker threads that were created and have not finished
InFlight == {f \in DOMAIN frames : IsWorker(f) /\ frames[f].pc # "done"}

HasManifest(dir) ==
  \E k \in 1..Len(package_names) :
    path_join(dir, package_names[k]) \in DOMAIN world.files

InRegistry(dir) ==
  \E k \in 1..Len(package_names) :
    path_join(dir, package_names[k]) \in DOMAIN built

\* the list a frame iterates in phase ph
ListOf(f, ph) ==
  IF ph = "dependencies" THEN Package(f).dependencies
                         ELSE Package(f).development

\* C1: the build command of a manifest path is executed at most once per
\* run, for every graph, concurrency and interleaving.
C1_AtMostOncePerPath == \A p \in DOMAIN execCount : execCount[p] <= 1

\* C2: with HAVE_PTHREADS and concurrency k >= 1, the workers created for
\* one dependency list of one package and not yet joined are never more
\* than k.
C2_WaveBound ==
  threads => \A f \in DOMAIN frames :
               Cardinality(Children(f)) <= opts.concurrency

\* a full wave of a list that is longer than the wave
C2_Witness ==
  /\ threads
  /\ \E f \in DOMAIN frames :
       /\ frames[f].pc = "join"
       /\ Cardinality(Children(f)) = opts.concurrency
       /\ Len(List(f)) > opts.concurrency

\* C3: over the whole run, nested workers included, the number of worker
\* threads in flight never exceeds the configured concurrency.
C3_PoolBound == Cardinality(InFlight) <= opts.concurrency

\* C4: with HAVE_PTHREADS, when a worker of a batch ended with a non-zero
\* status, build_package_with_package_name returns a non-zero status, and
\* only after the workers it started have been joined.
C4_BatchFailureReported ==
  threads => \A f \in DOMAIN frames :
               (frames[f].pc = "cleanup" /\ frames[f].failed # {}) =>
                 (frames[f].rc # 0 /\ Children(f) = {})

\* C5: the run without HAVE_PTHREADS and the run with HAVE_PTHREADS of the
\* same project end with the same registry and the same status.
C5_SameResult ==
  (run = 2 /\ pcMain = "done") => (built = first.built /\ rc = first.rc)

\* C6: when one sibling of a batch fails, every other sibling of the batch
\* that has a manifest reaches the registry and the batch reports a failure,
\* with and without HAVE_PTHREADS.
C6_SiblingsIsolated ==
  \A f \in DOMAIN frames :
    (frames[f].pc = "cleanup" /\ frames[f].failed # {}) =>
      /\ frames[f].rc # 0
      /\ \A ph \in frames[f].failed :
           \A n \in 1..Len(ListOf(f, ph)) :
             HasManifest(Dep(ListOf(f, ph)[n])) =>
               InRegistry(Dep(ListOf(f, ph)[n]))

\* C7: after a build command that returned non-zero,
\* build_package_with_package_name starts no dependency of that package and
\* returns a non-zero status, with and without HAVE_PTHREADS.
C7_FailedBuildStops ==
  \A f \in DOMAIN frames :
    frames[f].cmd # 0 =>
      /\ Children(f) = {}
      /\ frames[f].pc = "cleanup" => frames[f].rc # 0

\* C8: every manifest that was resolved is in the registry when
\* build_package_with_package_name returns, marked "t" exactly when its
\* build command was run and "f" when it has none; the total of the summary
\* is the number of paths whose build command was run, 1 for a root with a
\* build command and two dependencies without.
C8_RegistryMarks ==
  /\ \A f \in DOMAIN frames :
       (/\ frames[f].pc = "cleanup"
        /\ Path(f) \in DOMAIN world.files
        /\ Package(f).json = "ok") =>
         (/\ Path(f) \in DOMAIN built
          /\ built[Path(f)] = IF Package(f).makefile THEN T ELSE F)
  /\ \A p \in DOMAIN built \ {PROGRAM_KEY} :
       /\ p \in DOMAIN world.files
       /\ built[p] = IF execCount[p] > 0 THEN T ELSE F
       /\ world.files[p].makefile <=> execCount[p] > 0
  /\ pcMain = "done" =>
       /\ total_built = Cardinality({p \in DOMAIN execCount : execCount[p] > 0})
       /\ world = Fan(2) => total_built = 1

\* the root with a build command and its two dependencies without one have
\* been processed and counted
C8_Witness ==
  /\ pcMain = "done"
  /\ world = Fan(2)
  /\ DOMAIN built = {PROGRAM_KEY, Clib(CWD), Clib(Dep("d1")), Clib(Dep("d2"))}
  /\ built[Clib(Dep("d1"))] = F
  /\ total_built = 1

\* C9: with verbose output the summary is printed at the end of every run,
\* failed runs included; without arguments and without manifest the exit
\* code is non-zero and the summary is "built 0 packages".
C9_SummaryAlways ==
  (pcMain = "done" /\ opts.verbose) =>
    /\ summary # NoSummary
    /\ world = NoManifest => (exitCode # 0 /\ summary = Message(0))

\* C10: with several arguments the status returned by main is the status of
\* the first argument that failed (after the slug fallback), 0 if none did.
C10_FirstFailure ==
  (pcMain = "done" /\ argc > 0) => rc = firstFail

\* first slot of the wave that the child c of frame f belongs to, the
\* waves of a list being its consecutive blocks of opts.concurrency elements
WaveStart(f, c) ==
  LET slot == c[Len(c)]
      base == IF slot <= Len(Package(f).dependencies)
                THEN 0 ELSE Len(Package(f).dependencies)
  IN base + ((slot - base - 1) \div opts.concurrency) * opts.concurrency + 1

\* C17: with HAVE_PTHREADS, when a worker is created for a list element,
\* the workers of the parent that are created and not joined are exactly
\* those of the earlier elements of the same wave: no worker of a wave has
\* been joined before the wave is complete and none of an earlier wave is
\* left; a wave has at most opts.concurrency workers in declaration order.
C17_Waves ==
  [][threads =>
       \A f \in DOMAIN frames :
         f \in DOMAIN frames' =>
           \A c \in Children(f)' \ Children(f) :
             /\ Children(f) =
                  {Append(f, t) : t \in WaveStart(f, c)..(c[Len(c)] - 1)}
             /\ Cardinality(Children(f)') <= opts.concurrency]_vars

\* the second wave of a list has started (concurrency 2, third element)
C17_Witness ==
  /\ threads
  /\ opts.concurrency = 2
  /\ \E f \in DOMAIN frames :
       /\ frames[f].phase = "dependencies"
       /\ Children(f) = {Append(f, 3)}

\* C18: a call for a path that is already in the registry goes from the
\* lookup straight to cleanup with rc = 0, without changing the registry,
\* running a command or creating a frame, and build_package returns 0.
C18_KnownPathSkipped ==
  [][\A f \in DOMAIN frames :
       (f \in DOMAIN frames' /\ frames'[f] # frames[f]) =>
         /\ (frames[f].pc = "check" /\ Path(f) \in DOMAIN built) =>
              /\ frames'[f] = [frames[f] EXCEPT !.pc = "cleanup"]
              /\ frames[f].rc = 0
              /\ frames[f].ok = 0
              /\ built' = built
              /\ execCount' = execCount
              /\ DOMAIN frames' = DOMAIN frames
         /\ (frames[f].pc = "cleanup" /\ frames[f].ok = 0 /\ frames[f].rc = 0) =>
              frames'[f] = [frames[f] EXCEPT !.pc = "done"]]_vars

\* the worker of a second dependent found the shared package registered
C18_Witness ==
  \E f \in DOMAIN frames :
    /\ Len(f) > 3
    /\ frames[f].pc = "done"
    /\ frames[f].ok = 0
    /\ frames[f].rc = 0
    /\ Path(f) \in DOMAIN built
    /\ execCount[Path(f)] = 1

\* C19: build_package returns -ENOENT only for a directory that holds
\* neither clib.json nor package.json, and turns to package.json only when
\* clib.json does not exist.
C19_NoManifestOnlyIfNone ==
  \A f \in DOMAIN frames :
    /\ (frames[f].pc = "done" /\ frames[f].rc = -ENOENT) =>
         ~HasManifest(frames[f].dir)
    /\ frames[f].ni = 2 => Clib(frames[f].dir) \notin DOMAIN world.files

\* C20: the total of the summary counts only the packages whose build
\* command ran and returned 0.
C20_TotalCountsSuccessful ==
  pcMain = "done" =>
    total_built = Cardinality({p \in DOMAIN world.files :
                                 execCount[p] > 0 /\ world.files[p].status = 0})

\* slot of the child c among the children of its parent
SlotOf(c) == c[Len(c)]

\* children of f that were started for a runtime dependency
RuntimeChildren(f) ==
  {c \in Children(f) : SlotOf(c) <= Len(Package(f).dependencies)}

\* C21: when build_package_with_package_name starts a worker (or, without
\* HAVE_PTHREADS, a call) for one of its dependencies, its own command has
\* run if it has a makefile, and its path is in the registry; a worker for
\* a development dependency is started only with opts.dev and only when no
\* worker for a runtime dependency is left unjoined.
C21_OwnBuildFirst ==
  [][\A f \in DOMAIN frames :
       f \in DOMAIN frames' =>
         \A c \in Children(f)' \ Children(f) :
           /\ frames[f].ok = 1
           /\ Path(f) \in DOMAIN built
           /\ Package(f).makefile => execCount[Path(f)] > 0
           /\ SlotOf(c) > Len(Package(f).dependencies) =>
                /\ opts.dev
                /\ RuntimeChildren(f) = {}]_vars

\* a worker for a development dependency of a package that also has
\* runtime dependencies is running
C21_Witness ==
  \E f \in DOMAIN frames :
    /\ frames[f].phase = "development"
    /\ Len(Package(f).dependencies) > 0
    /\ \E c \in Children(f) : SlotOf(c) > Len(Package(f).dependencies)

\* C22: every run ends: main returns, and every worker has been joined and
\* every call has returned by then, also for the cycle a -> b -> a.
C22_Terminates == <>[](pcMain = "done" /\ DOMAIN frames = {})

\* the run over the cycle a -> b -> a has ended, with HAVE_PTHREADS
C22_Witness ==
  /\ world.tag = "cycle"
  /\ threads
  /\ pcMain = "done"
  /\ DOMAIN frames = {}
  /\ Clib(Dep("a")) \in DOMAIN built
  /\ Clib(Dep("b")) \in DOMAIN built

\* the mutex is held only between a lock and the registry access after it
MutexScope ==
  mutex # NoOwner =>
    /\ mutex \in DOMAIN frames
    /\ frames[mutex].pc \in {"check", "set"}

\* frames that wait in pthread_mutex_lock
Waiting == {f \in DOMAIN frames : frames[f].pc \in {"lock1", "lock2"}}

\* C23: the mutex is held only around one registry access (never during
\* system(), while workers are created or joined, or after the return);
\* a state in which nothing can run is the end of main; and again and again
\* the mutex is free with no frame waiting for it.
C23_MutexDeadlockFree ==
  /\ [](MutexScope /\ (pcMain # "done" => ENABLED Next))
  /\ []<>(mutex = NoOwner /\ Waiting = {})

\* one worker holds the mutex while another waits for it
C23_Witness ==
  /\ threads
  /\ mutex # NoOwner
  /\ Waiting # {}
  /\ \E f \in DOMAIN frames : frames[f].pc \in {"system", "join", "tail"}

\* ------------------------------------------------------------------------
\* Properties of clib-install
\* ------------------------------------------------------------------------

\* value of key in the object at `name` of a document, as an entry set
SectionEntries(doc, name) ==
  IF HasObject(doc, name)
    THEN {json_object_dotget_object(doc, name)[n] :
            n \in 1..Len(json_object_dotget_object(doc, name))}
    ELSE {}

\* the repo identifier an argument names: the slug up to its '@'
RepoOf(slug) ==
  IF AtSign(slug) # 0 THEN SubSeq(slug, 1, AtSign(slug) - 1) ELSE slug

ManifestFiles == {manifest_names[k] : k \in 1..Len(manifest_names)}

\* C11: a resolution or fetch failure of one argument does not keep
\* install_package from being called for every later argument.
C11_LaterArgsInvoked == (ipc = "exit" /\ argn > 0) => invoked = 1..argn

\* C12: the exit status of clib-install is non-zero whenever install_package
\* returned a failure for some argument, whatever the kind of failure.
C12_FailureExitsNonZero == (ipc = "exit" /\ failures # {}) => code # 0

\* C13: write_dependency applied twice with the same section, repo and
\* version leaves the same manifest files as applied once, for the whole
\* loop over the manifest names and for each single file.
C13_MergeIdempotent ==
  \A s \in Sections : \A p \in Pkgs \cup {pkg} :
    /\ write_dependency(write_dependency(project, p, s).project, p, s).project
         = write_dependency(project, p, s).project
    /\ \A f \in ManifestFiles :
         write_dependency_with_package_name(
           write_dependency_with_package_name(project, p, s, f).project,
           p, s, f).project
         = write_dependency_with_package_name(project, p, s, f).project

\* the same slug was installed and saved twice in one run
C13_Witness ==
  /\ ipc = "exit"
  /\ argn = 2
  /\ cmdline.argv[1] = ArgPinned
  /\ cmdline.argv[2] = ArgPinned
  /\ \A n \in 1..2 : \E w \in writes : w.arg = n /\ w.rc = 0
  /\ \E f \in ManifestFiles : project[f] # project0[f]

\* C14: a merge into a manifest that parses changes only the entry
\* repo -> version of the target section: every other top-level key keeps
\* its place and value, every other entry of the section keeps its value,
\* a missing section is created with the new entry only, the other manifest
\* file is untouched; a manifest that does not parse is left as it is.
C14_MergeFrame ==
  \A s \in Sections : \A p \in Pkgs \cup {pkg} : \A f \in ManifestFiles :
    LET r == write_dependency_with_package_name(project, p, s, f)
        old == project[f].doc
        new == r.project[f].doc
    IN IF ~Parses(project[f])
         THEN r.rc = 1 /\ r.project = project
         ELSE
           /\ r.rc = 0
           /\ Parses(r.project[f])
           /\ \A g \in ManifestFiles \ {f} : r.project[g] = project[g]
           /\ Len(new) = Len(old) + (IF IndexOf(old, s) = 0 THEN 1 ELSE 0)
           /\ \A n \in 1..Len(old) : old[n].k # s => new[n] = old[n]
           /\ HasObject(new, s)
           /\ Entry(p.repo, Str(p.version)) \in SectionEntries(new, s)
           /\ \A e \in SectionEntries(new, s) :
                e.k # p.repo => e \in SectionEntries(old, s)
           /\ \A e \in SectionEntries(old, s) :
                e.k # p.repo => e \in SectionEntries(new, s)
           /\ Len(json_object_dotget_object(new, s)) =
                Cardinality(SectionEntries(new, s))

\* --save-dev of a new package into a manifest that has dependencies only:
\* `development` was created with the one entry, the rest is as before
C14_Witness ==
  /\ ipc = "exit"
  /\ cmdline.argv = <<ArgBare>>
  /\ project0[manifest_names[1]] = File("pretty", DocDeps)
  /\ \E w \in writes : w.rc = 0 /\ w.section = "development"
  /\ SectionEntries(project[manifest_names[1]].doc, "development")
       = {Entry(<<"baz">>, Str("0.3.0"))}
  /\ SectionEntries(project[manifest_names[1]].doc, "dependencies")
       = SectionEntries(DocDeps, "dependencies")

\* C15: a remote slug installed successfully, with no-save and save-dev
\* unset, in a project directory without any manifest file, ends with a
\* manifest file that lists the package under `dependencies`.
C15_ManifestCreated ==
  (/\ ipc = "return"
   /\ Arg.kind = "slug"
   /\ irc = 0
   /\ "install" \in passed
   /\ ~cmdline.nosave
   /\ ~cmdline.savedev
   /\ \A f \in ManifestFiles : project0[f].st = "absent") =>
    \E f \in ManifestFiles :
      /\ Parses(project[f])
      /\ Entry(RepoOf(Arg.slug), Str(Arg.resolved.version))
           \in SectionEntries(project[f].doc, "dependencies")

\* C16: the manifest files change only in the save step of a top-level slug
\* whose install (and, with --dev, development install) succeeded and only
\* without --no-save; the change is confined to one file and to the section
\* `development` with --save-dev, `dependencies` without.
C16_SaveOnlyTopLevel ==
  [][project' # project =>
       /\ ipc = "save"
       /\ Arg.kind = "slug"
       /\ irc = 0
       /\ "install" \in passed
       /\ cmdline.dev => "development" \in passed
       /\ ~cmdline.nosave
       /\ \E f \in ManifestFiles :
            /\ \A g \in ManifestFiles \ {f} : project'[g] = project[g]
            /\ Parses(project[f])
            /\ Parses(project'[f])
            /\ \A n \in 1..Len(project[f].doc) :
                 project[f].doc[n].k #
                   (IF cmdline.savedev THEN "development" ELSE "dependencies")
                 => project'[f].doc[n] = project[f].doc[n]
            /\ \E e \in SectionEntries(project'[f].doc,
                 IF cmdline.savedev THEN "development" ELSE "dependencies") :
                 e.k = pkg.repo]_vars

\* a package saved with --save-dev after its install and its development
\* install succeeded
C16_Witness ==
  /\ ipc = "return"
  /\ cmdline.savedev
  /\ cmdline.dev
  /\ passed = {"install", "development"}
  /\ \E w \in writes : w.arg = ii /\ w.rc = 0 /\ w.section = "development"
  /\ project # project0

====
